---------------------------- MODULE Spec2Model ----------------------------
(***************************************************************************)
(* Model of the register machine of src/19/src/main.rs (Advent of Code     *)
(* 2018, day 19): the sixteen opcodes over six i32 registers, the opcode   *)
(* table, the loader in main and the fetch/dispatch/increment/check loop   *)
(* of Processor::run_program; and the cave of src/22/src/main.rs (day 22): *)
(* CaveSystem::new and the danger index main sums over it.                 *)
(*                                                                         *)
(* Register values are Rust i32.  An arithmetic result outside the i32     *)
(* range panics when the build has overflow checks (the debug profile)     *)
(* and wraps modulo 2^32 when it has not (the release profile); the        *)
(* profile is the variable overflow_checks, fixed for a whole run.         *)
(***************************************************************************)
EXTENDS Integers, Sequences, FiniteSets, TLC

VARIABLES
    input,            \* the lines of input.txt (main, line 217)
    line_no,          \* how many lines the loop of main has consumed
    ip_register,      \* main's Option<i32>, then Processor.ip_register
    commands,         \* main's Vec<Command>
    registers,        \* Processor.registers, a six-tuple (index r+1 is register r)
    pc,               \* where the program is
    why,              \* what ended the process abnormally ("" while it has not)
    executed,         \* history: the addresses run_program has dispatched, in order
    overflow_checks,  \* build profile: TRUE panics on i32 overflow, FALSE wraps
    cs,               \* day 22: the CaveSystem (vec, width, height, depth, target)
    cave_x,           \* day 22: x of the loop CaveSystem::new is in
    cave_y,           \* day 22: y of the loop CaveSystem::new is in
    danger_index      \* day 22: main's danger_index

\* The state of day 22, which day 19 leaves alone, and the state of day 19,
\* which day 22 leaves alone.
caveVars == <<cs, cave_x, cave_y, danger_index>>
processorVars == <<input, line_no, ip_register, commands, registers, executed>>

vars == <<input, line_no, ip_register, commands, registers, pc, why,
          executed, overflow_checks, cs, cave_x, cave_y, danger_index>>

---------------------------------------------------------------------------
(* i32 *)

MaxI32 == 2147483647
MinI32 == -MaxI32 - 1

NumRegisters == 6

\* The model's bounds.
MaxLen == 2        \* longest program built from SmallPool
MaxSteps == 6      \* most instructions one run dispatches

\* The outcome of an expression: a value, or none (the evaluation panicked).
I32Result(v) == [ok |-> TRUE, val |-> v]
I32Overflow == [ok |-> FALSE, val |-> 0]

AddOverflows(x, y) ==
    \/ y > 0 /\ x > MaxI32 - y
    \/ y < 0 /\ x < MinI32 - y

\* x + y reduced modulo 2^32 into the i32 range, never leaving it on the way.
WrapAdd(x, y) ==
    IF y > 0 /\ x > MaxI32 - y THEN ((x - MaxI32) - 1) + ((y - MaxI32) - 1)
    ELSE IF y < 0 /\ x < MinI32 - y THEN ((x + MaxI32) + 1) + ((y + MaxI32) + 1)
    ELSE x + y

\* The 31 low bits of an i32 (its value modulo 2^31) and its sign bit.
Low31(x) == IF x >= 0 THEN x ELSE (x + MaxI32) + 1
SignBit(x) == IF x < 0 THEN 1 ELSE 0
FromBits(sign, low) == IF sign = 1 THEN (low - MaxI32) - 1 ELSE low

RECURSIVE AndBits(_, _)
AndBits(x, y) ==
    IF x = 0 \/ y = 0 THEN 0
    ELSE ((x % 2) * (y % 2)) + 2 * AndBits(x \div 2, y \div 2)

RECURSIVE OrBits(_, _)
OrBits(x, y) ==
    IF x = 0 THEN y
    ELSE IF y = 0 THEN x
    ELSE (IF x % 2 = 1 \/ y % 2 = 1 THEN 1 ELSE 0) + 2 * OrBits(x \div 2, y \div 2)

\* Two's-complement & and | of i32 values.
BitAnd(x, y) ==
    FromBits(SignBit(x) * SignBit(y), AndBits(Low31(x), Low31(y)))
BitOr(x, y) ==
    FromBits(IF x < 0 \/ y < 0 THEN 1 ELSE 0, OrBits(Low31(x), Low31(y)))

\* |x| for x # MinI32.
Abs(x) == IF x < 0 THEN -x ELSE x

\* Whether the product x * y lies outside the i32 range.
MulOverflows(x, y) ==
    IF x = 0 \/ y = 0 THEN FALSE
    ELSE IF x = MinI32 THEN y # 1
    ELSE IF y = MinI32 THEN x # 1
    ELSE IF (x > 0) = (y > 0) THEN Abs(x) > MaxI32 \div Abs(y)
    ELSE \* a negative product may reach -2^31 = -(MaxI32 + 1)
         /\ Abs(x) > MaxI32 \div Abs(y)
         /\ ~(MaxI32 % Abs(y) = Abs(y) - 1 /\ Abs(x) = (MaxI32 \div Abs(y)) + 1)

\* Byte k (0 the lowest) of the two's-complement representation of an i32.
Byte(x, k) ==
    IF k = 0 THEN Low31(x) % 256
    ELSE IF k = 1 THEN (Low31(x) \div 256) % 256
    ELSE IF k = 2 THEN (Low31(x) \div 65536) % 256
    ELSE (Low31(x) \div 16777216) + 128 * SignBit(x)

FromBytes(b0, b1, b2, b3) ==
    (IF b3 >= 128 THEN b3 - 256 ELSE b3) * 16777216 + b2 * 65536 + b1 * 256 + b0

\* x * y modulo 2^32 into the i32 range: schoolbook product of the bytes,
\* keeping the four low bytes.
WrapMul(x, y) ==
    LET s0 == Byte(x, 0) * Byte(y, 0)
        s1 == Byte(x, 0) * Byte(y, 1) + Byte(x, 1) * Byte(y, 0) + (s0 \div 256)
        s2 == Byte(x, 0) * Byte(y, 2) + Byte(x, 1) * Byte(y, 1)
                + Byte(x, 2) * Byte(y, 0) + (s1 \div 256)
        s3 == Byte(x, 0) * Byte(y, 3) + Byte(x, 1) * Byte(y, 2)
                + Byte(x, 2) * Byte(y, 1) + Byte(x, 3) * Byte(y, 0) + (s2 \div 256)
    IN  FromBytes(s0 % 256, s1 % 256, s2 % 256, s3 % 256)

\* Rust's + and * on i32 under the build profile `checks`.
I32Add(x, y, checks) ==
    IF AddOverflows(x, y)
    THEN IF checks THEN I32Overflow ELSE I32Result(WrapAdd(x, y))
    ELSE I32Result(x + y)

I32Mul(x, y, checks) ==
    IF MulOverflows(x, y)
    THEN IF checks THEN I32Overflow ELSE I32Result(WrapMul(x, y))
    ELSE I32Result(x * y)


---------------------------------------------------------------------------
(* Processor: the register file and the sixteen opcodes *)

Registers(r0, r1, r2, r3, r4, r5) == <<r0, r1, r2, r3, r4, r5>>

ValidRegister(register) == register \in 0..(NumRegisters - 1)

\* The outcome of a method of Processor: the register file it leaves, or a
\* panic, which leaves the register file as it was.
Returned(regs) == [ok |-> TRUE, registers |-> regs, why |-> ""]
Panicked(regs, msg) == [ok |-> FALSE, registers |-> regs, why |-> msg]

\* The unreachable!() arm of read and of write.
NoSuchRegister(regs) == Panicked(regs, "unreachable: no such register")

\* (Mutant.) read giving 0 for a register that does not exist.
read_or_zero(regs, register) ==
    IF ValidRegister(register) THEN I32Result(regs[register + 1]) ELSE I32Result(0)

\* Processor::read: the match on 0..5, unreachable!() otherwise.
read(regs, register) ==
    IF ValidRegister(register) THEN I32Result(regs[register + 1]) ELSE I32Overflow

\* Processor::write: the match on 0..5, unreachable!() otherwise.
write(regs, register, value) ==
    IF ValidRegister(register)
    THEN Returned([regs EXCEPT ![register + 1] = value])
    ELSE NoSuchRegister(regs)

\* The operators the macros are instantiated with.
BinaryOp(op, x, y, checks) ==
    CASE op = "+" -> I32Add(x, y, checks)
      [] op = "*" -> I32Mul(x, y, checks)
      [] op = "&" -> I32Result(BitAnd(x, y))
      [] op = "|" -> I32Result(BitOr(x, y))

\* (Mutant.) > taken as >=.
TestOpInclusive(op, x, y) ==
    CASE op = ">" -> x >= y
      [] op = "==" -> x = y

TestOp(op, x, y) ==
    CASE op = ">" -> x > y
      [] op = "==" -> x = y

\* (Mutant.) The write also storing the value in the register after c.
WriteValueAndNext(regs, c, v) ==
    IF ~v.ok THEN Panicked(regs, "arithmetic overflow")
    ELSE IF ~ValidRegister(c) THEN NoSuchRegister(regs)
    ELSE Returned([regs EXCEPT ![c + 1] = v.val, ![((c + 1) % NumRegisters) + 1] = v.val])

\* self.write(c, value), where the value's evaluation may have panicked on
\* i32 overflow.
WriteValue(regs, c, v) ==
    IF v.ok THEN write(regs, c, v.val) ELSE Panicked(regs, "arithmetic overflow")

\* (Mutant.) binaryr computing in place: c = a; c = c $op b, which reads the
\* new value of c when b is c.
binaryr_inplace(op, regs, a, b, c, checks) ==
    IF ~read(regs, a).ok \/ ~read(regs, b).ok \/ ~ValidRegister(c)
    THEN NoSuchRegister(regs)
    ELSE WriteValue(regs, c,
                    BinaryOp(op, read(regs, a).val,
                             read(write(regs, c, read(regs, a).val).registers, b).val,
                             checks))

\* binaryr!: self.write(c, self.read(a) $op self.read(b))
binaryr(op, regs, a, b, c, checks) ==
    IF ~read(regs, a).ok \/ ~read(regs, b).ok THEN NoSuchRegister(regs)
    ELSE WriteValue(regs, c,
                    BinaryOp(op, read(regs, a).val, read(regs, b).val, checks))

\* (Mutant.) binaryi taking b for a register, as binaryr does.
binaryi_reads_b(op, regs, a, b, c, checks) == binaryr(op, regs, a, b, c, checks)

\* binaryi!: self.write(c, self.read(a) $op b)
binaryi(op, regs, a, b, c, checks) ==
    IF ~read(regs, a).ok THEN NoSuchRegister(regs)
    ELSE WriteValue(regs, c, BinaryOp(op, read(regs, a).val, b, checks))

\* (Mutant.) testingir taking a for a register, as testingrr does.
testingir_reads_a(op, regs, a, b, c) ==
    IF ~read(regs, a).ok \/ ~read(regs, b).ok THEN NoSuchRegister(regs)
    ELSE write(regs, c,
               IF TestOp(op, read(regs, a).val, read(regs, b).val) THEN 1 ELSE 0)

\* testingir!: self.write(c, if a $op self.read(b) { 1 } else { 0 })
testingir(op, regs, a, b, c) ==
    IF ~read(regs, b).ok THEN NoSuchRegister(regs)
    ELSE write(regs, c, IF TestOp(op, a, read(regs, b).val) THEN 1 ELSE 0)

\* testingri!: self.write(c, if self.read(a) $op b { 1 } else { 0 })
testingri(op, regs, a, b, c) ==
    IF ~read(regs, a).ok THEN NoSuchRegister(regs)
    ELSE write(regs, c, IF TestOp(op, read(regs, a).val, b) THEN 1 ELSE 0)

\* testingrr!: self.write(c, if self.read(a) $op self.read(b) { 1 } else { 0 })
testingrr(op, regs, a, b, c) ==
    IF ~read(regs, a).ok \/ ~read(regs, b).ok THEN NoSuchRegister(regs)
    ELSE write(regs, c,
               IF TestOp(op, read(regs, a).val, read(regs, b).val) THEN 1 ELSE 0)

addr(regs, a, b, c, checks) == binaryr("+", regs, a, b, c, checks)
addi(regs, a, b, c, checks) == binaryi("+", regs, a, b, c, checks)
mulr(regs, a, b, c, checks) == binaryr("*", regs, a, b, c, checks)
muli(regs, a, b, c, checks) == binaryi("*", regs, a, b, c, checks)
banr(regs, a, b, c, checks) == binaryr("&", regs, a, b, c, checks)
bani(regs, a, b, c, checks) == binaryi("&", regs, a, b, c, checks)
borr(regs, a, b, c, checks) == binaryr("|", regs, a, b, c, checks)
bori(regs, a, b, c, checks) == binaryi("|", regs, a, b, c, checks)

\* (Mutant.) setr writing the literal a, as seti does.
setr_literal(regs, a, b, c) == write(regs, c, a)

setr(regs, a, b, c) ==
    IF ~read(regs, a).ok THEN NoSuchRegister(regs)
    ELSE write(regs, c, read(regs, a).val)

\* (Mutant.) seti taking a for a register, as setr does.
seti_reads_a(regs, a, b, c) == setr(regs, a, b, c)

seti(regs, a, b, c) == write(regs, c, a)

gtir(regs, a, b, c) == testingir(">", regs, a, b, c)
gtri(regs, a, b, c) == testingri(">", regs, a, b, c)
gtrr(regs, a, b, c) == testingrr(">", regs, a, b, c)
eqir(regs, a, b, c) == testingir("==", regs, a, b, c)
eqri(regs, a, b, c) == testingri("==", regs, a, b, c)
eqrr(regs, a, b, c) == testingrr("==", regs, a, b, c)

\* (Mutant.) The table with the entries of 4 and 6 exchanged.
get_instructions_exchanged ==
    [opcode \in 0..15 |->
        <<"addr", "addi", "mulr", "muli", "borr", "bani", "banr", "bori",
          "setr", "seti", "gtir", "gtri", "gtrr", "eqir", "eqri", "eqrr">>[opcode + 1]]

\* get_instructions: the table from opcode identifier to method.
get_instructions ==
    [opcode \in 0..15 |->
        <<"addr", "addi", "mulr", "muli", "banr", "bani", "borr", "bori",
          "setr", "seti", "gtir", "gtri", "gtrr", "eqir", "eqri", "eqrr">>[opcode + 1]]

\* f(self, command.a, command.b, command.c) for a method f of the table.
Invoke(f, regs, a, b, c, checks) ==
    CASE f = "addr" -> addr(regs, a, b, c, checks)
      [] f = "addi" -> addi(regs, a, b, c, checks)
      [] f = "mulr" -> mulr(regs, a, b, c, checks)
      [] f = "muli" -> muli(regs, a, b, c, checks)
      [] f = "banr" -> banr(regs, a, b, c, checks)
      [] f = "bani" -> bani(regs, a, b, c, checks)
      [] f = "borr" -> borr(regs, a, b, c, checks)
      [] f = "bori" -> bori(regs, a, b, c, checks)
      [] f = "setr" -> setr(regs, a, b, c)
      [] f = "seti" -> seti(regs, a, b, c)
      [] f = "gtir" -> gtir(regs, a, b, c)
      [] f = "gtri" -> gtri(regs, a, b, c)
      [] f = "gtrr" -> gtrr(regs, a, b, c)
      [] f = "eqir" -> eqir(regs, a, b, c)
      [] f = "eqri" -> eqri(regs, a, b, c)
      [] f = "eqrr" -> eqrr(regs, a, b, c)

\* Processor::run_command
run_command(regs, command, checks) ==
    IF command.opcode \notin DOMAIN get_instructions
    THEN Panicked(regs, "Unknown opcode")
    ELSE Invoke(get_instructions[command.opcode], regs,
                command.a, command.b, command.c, checks)

\* Processor::ip
ip(regs, ip_reg) == read(regs, ip_reg)

---------------------------------------------------------------------------
(* Command and the loader's parsing *)

Mnemonics ==
    {"addr", "addi", "mulr", "muli", "banr", "bani", "borr", "bori",
     "setr", "seti", "gtir", "gtri", "gtrr", "eqir", "eqri", "eqrr"}

\* The match of Command::new: the opcode identifier of a mnemonic; no
\* identifier (unreachable!()) for any other string.
OpcodeOf(opcode_name) ==
    CASE opcode_name = "addr" -> I32Result(0)
      [] opcode_name = "addi" -> I32Result(1)
      [] opcode_name = "mulr" -> I32Result(2)
      [] opcode_name = "muli" -> I32Result(3)
      [] opcode_name = "banr" -> I32Result(4)
      [] opcode_name = "bani" -> I32Result(5)
      [] opcode_name = "borr" -> I32Result(6)
      [] opcode_name = "bori" -> I32Result(7)
      [] opcode_name = "setr" -> I32Result(8)
      [] opcode_name = "seti" -> I32Result(9)
      [] opcode_name = "gtir" -> I32Result(10)
      [] opcode_name = "gtri" -> I32Result(11)
      [] opcode_name = "gtrr" -> I32Result(12)
      [] opcode_name = "eqir" -> I32Result(13)
      [] opcode_name = "eqri" -> I32Result(14)
      [] opcode_name = "eqrr" -> I32Result(15)
      [] OTHER -> I32Overflow

Command(opcode, a, b, c) == [opcode |-> opcode, a |-> a, b |-> b, c |-> c]

\* A line of input.txt is its first word and the words after it.  A word is
\* a decimal numeral of an i32, with the value it denotes, or it is not.
Line(head, words) == [head |-> head, words |-> words]
Numeral(v) == [numeral |-> TRUE, val |-> v]
NotNumeral == [numeral |-> FALSE, val |-> 0]

\* (Mutant.) s_to_i falling back to 0: s.parse().unwrap_or(0)
s_to_i_lenient(word) == I32Result(word.val)

\* s_to_i: s.parse().expect(..)
s_to_i(word) == IF word.numeral THEN I32Result(word.val) ELSE I32Overflow

\* The outcome of parse_command: a Command, or the panic that ended it.
Parsed(command) == [ok |-> TRUE, command |-> command, why |-> ""]
ParseFailed(msg) == [ok |-> FALSE, command |-> Command(0, 0, 0, 0), why |-> msg]

\* parse_command: every word after the first is parsed, then the first
\* three are taken, then Command::new matches the mnemonic.
parse_command(line) ==
    IF \E k \in 1..Len(line.words) : ~s_to_i(line.words[k]).ok
    THEN ParseFailed("Failed to parse str as i32")
    ELSE IF Len(line.words) < 3 THEN ParseFailed("index out of bounds: inputs")
    ELSE IF ~OpcodeOf(line.head).ok THEN ParseFailed("unreachable: no such opcode name")
    ELSE Parsed(Command(OpcodeOf(line.head).val, s_to_i(line.words[1]).val,
                        s_to_i(line.words[2]).val, s_to_i(line.words[3]).val))

---------------------------------------------------------------------------
(* main: the loader, then run_program *)

None == [some |-> FALSE, val |-> 0]
Some(v) == [some |-> TRUE, val |-> v]

IpLine(word) == Line("#ip", <<word>>)
CommandLine(name, a, b, c) == Line(name, <<Numeral(a), Numeral(b), Numeral(c)>>)

\* The process ends abnormally; nothing else changes.
Abort(msg) ==
    /\ pc' = "panic"
    /\ why' = msg
    /\ UNCHANGED <<ip_register, commands, registers, executed>>

\* One iteration of `for line in input.lines()` (lines 221-229).
ReadLine ==
    /\ pc = "load"
    /\ line_no < Len(input)
    /\ line_no' = line_no + 1
    /\ UNCHANGED <<input, overflow_checks>>
    /\ UNCHANGED caveVars
    /\ IF input[line_no + 1].head = "#ip"
       THEN IF ip_register # None THEN Abort("assertion failed")
            ELSE IF ~s_to_i(input[line_no + 1].words[1]).ok
                 THEN Abort("Failed to parse str as i32")
            ELSE /\ ip_register' = Some(s_to_i(input[line_no + 1].words[1]).val)
                 /\ UNCHANGED <<commands, registers, pc, why, executed>>
       ELSE IF ~parse_command(input[line_no + 1]).ok
            THEN Abort(parse_command(input[line_no + 1]).why)
            ELSE /\ commands' = Append(commands, parse_command(input[line_no + 1]).command)
                 /\ UNCHANGED <<ip_register, registers, pc, why, executed>>

\* After the last line (lines 231-243): exit(1) without an #ip line, else
\* the Processor is built with all registers 0 and run_program is entered.
StartProgram ==
    /\ pc = "load"
    /\ line_no = Len(input)
    /\ UNCHANGED <<input, line_no, ip_register, commands, executed, overflow_checks>>
    /\ UNCHANGED caveVars
    /\ IF ip_register = None
       THEN /\ pc' = "exit"
            /\ why' = "Didn't find the instruction pointer register in the input"
            /\ UNCHANGED registers
       ELSE /\ pc' = "fetch"
            /\ registers' = Registers(0, 0, 0, 0, 0, 0)
            /\ UNCHANGED why

\* (Mutant.) The fetch taking register 0 for the instruction pointer,
\* whatever ip_register is.
FetchAddressRegisterZero(regs, ip_reg, program) ==
    IF ~ip(regs, ip_reg).ok THEN I32Overflow
    ELSE IF regs[1] < 0 \/ regs[1] >= Len(program) THEN I32Overflow
    ELSE I32Result(regs[1])

\* The address run_program fetches from: self.ip() as usize, an index of
\* commands or none (commands[..] panics out of bounds, self.ip() on a
\* register that does not exist).
FetchAddress(regs, ip_reg, program) ==
    IF ~ip(regs, ip_reg).ok THEN I32Overflow
    ELSE IF ip(regs, ip_reg).val < 0 \/ ip(regs, ip_reg).val >= Len(program)
    THEN I32Overflow
    ELSE ip(regs, ip_reg)

\* Line 133: self.run_command(&inst, &commands[self.ip() as usize])
RunCommand ==
    /\ pc = "fetch"
    /\ Len(executed) < MaxSteps
    /\ UNCHANGED <<input, line_no, ip_register, commands, overflow_checks>>
    /\ UNCHANGED caveVars
    /\ IF ~ip(registers, ip_register.val).ok
       THEN /\ pc' = "panic" /\ why' = "unreachable: no such register"
            /\ UNCHANGED <<registers, executed>>
       ELSE IF ~FetchAddress(registers, ip_register.val, commands).ok
       THEN /\ pc' = "panic" /\ why' = "index out of bounds: commands"
            /\ UNCHANGED <<registers, executed>>
       ELSE LET address == FetchAddress(registers, ip_register.val, commands).val
                result == run_command(registers, commands[address + 1], overflow_checks)
            IN  /\ executed' = Append(executed, address)
                /\ registers' = result.registers
                /\ why' = result.why
                /\ pc' = IF result.ok THEN "increment" ELSE "panic"

\* The value line 136 writes: self.ip() + 1
NextIp(value, checks) == I32Add(value, 1, checks)

\* Line 136: self.write(self.ip_register, self.ip() + 1)
IncrementIp ==
    /\ pc = "increment"
    /\ UNCHANGED <<input, line_no, ip_register, commands, executed, overflow_checks>>
    /\ UNCHANGED caveVars
    /\ LET result == WriteValue(registers, ip_register.val,
                                NextIp(ip(registers, ip_register.val).val,
                                       overflow_checks))
       IN  /\ registers' = result.registers
           /\ why' = result.why
           /\ pc' = IF result.ok THEN "check" ELSE "panic"

\* (Mutant.) Halts with > for >=: the loop would fetch once more at address N.
HaltsLate(regs, ip_reg, program) == ip(regs, ip_reg).val > Len(program)

\* Line 139: self.ip() >= commands.len() as i32
Halts(regs, ip_reg, program) == ip(regs, ip_reg).val >= Len(program)

\* Lines 139-141: break, or go round the loop again.
CheckHalt ==
    /\ pc = "check"
    /\ pc' = IF Halts(registers, ip_register.val, commands) THEN "done" ELSE "fetch"
    /\ UNCHANGED <<input, line_no, ip_register, commands, registers, why,
                   executed, overflow_checks>>
    /\ UNCHANGED caveVars

---------------------------------------------------------------------------
(* The inputs the model runs *)

\* Programs of one instruction, for every destination and every
\* instruction-pointer register: seti with each jump target, and nine other
\* mnemonics over operands that name a register (0, 1, 5) or do not (-1, -2,
\* -3, MaxI32) and are literals where the opcode takes one.
UnitMnemonics ==
    {"addr", "addi", "mulr", "muli", "banr", "bani", "borr", "bori", "setr"}
UnitA == {-2, 0, 1, 5}
UnitB == {-3, -1, 0, 5, MaxI32}
Targets == {MinI32, -2, -1, 0, 1, 5, MaxI32}

UnitInputs ==
    { <<IpLine(Numeral(r)), CommandLine(name, a, b, c)>> :
        r \in 0..5, name \in UnitMnemonics, a \in UnitA, b \in UnitB, c \in 0..5 }
    \cup
    { <<IpLine(Numeral(r)), CommandLine("seti", a, b, c)>> :
        r \in 0..5, a \in Targets, b \in {0, 5}, c \in 0..5 }

\* Programs of up to MaxLen instructions over a small pool, with the
\* instruction pointer in register 0, 1 or 2 (the pool never writes 2).
SmallPool ==
    { CommandLine("seti", MaxI32, 0, 1), CommandLine("addi", 1, 1, 1),
      CommandLine("seti", -1, 0, 0), CommandLine("seti", -5, 0, 0),
      CommandLine("addi", 0, 1, 0), CommandLine("mulr", 1, 1, 1),
      CommandLine("gtrr", 0, 1, 3), CommandLine("setr", 1, 0, 0) }

RECURSIVE SeqsUpTo(_, _)
SeqsUpTo(S, n) ==
    IF n = 0 THEN {<<>>}
    ELSE SeqsUpTo(S, n - 1)
           \cup { Append(q, x) : q \in { p \in SeqsUpTo(S, n - 1) : Len(p) = n - 1 }, x \in S }

SmallInputs ==
    { <<IpLine(Numeral(r))>> \o program :
        r \in 0..2, program \in SeqsUpTo(SmallPool, MaxLen) \ {<<>>} }

\* The two programs the specification's scenarios run.
ScenarioSeven ==
    << IpLine(Numeral(0)),
       CommandLine("seti", 5, 0, 1), CommandLine("seti", 6, 0, 2),
       CommandLine("addi", 0, 1, 0), CommandLine("addr", 1, 2, 3),
       CommandLine("setr", 1, 0, 0), CommandLine("seti", 8, 0, 4),
       CommandLine("seti", 9, 0, 5) >>
ScenarioThree ==
    << IpLine(Numeral(0)),
       CommandLine("seti", 5, 0, 1), CommandLine("seti", 6, 0, 2),
       CommandLine("addr", 1, 2, 3) >>

\* Inputs the loader or the first fetch ends on.
LoaderInputs ==
    { <<CommandLine("seti", 5, 0, 1)>>,
      <<IpLine(Numeral(0)), IpLine(Numeral(1)), CommandLine("seti", 5, 0, 1)>>,
      <<CommandLine("seti", 5, 0, 1), IpLine(Numeral(3))>>,
      <<IpLine(NotNumeral), CommandLine("seti", 5, 0, 1)>>,
      <<IpLine(Numeral(0)), Line("seti", <<Numeral(5), NotNumeral, Numeral(1)>>)>>,
      <<IpLine(Numeral(0)), Line("seti", <<Numeral(5), Numeral(0)>>)>>,
      <<IpLine(Numeral(0)), CommandLine("noop", 0, 0, 0)>>,
      <<IpLine(Numeral(6)), CommandLine("seti", 5, 0, 1)>>,
      <<IpLine(Numeral(-1)), CommandLine("seti", 5, 0, 1)>>,
      <<IpLine(Numeral(0)), CommandLine("seti", 5, 0, 6)>>,
      <<IpLine(Numeral(0)), CommandLine("seti", 5, 0, 1), CommandLine("seti", 5, 0, 6)>>,
      <<IpLine(Numeral(0))>> }

\* Inputs with a line the loader cannot take (an unknown mnemonic, a word
\* that is no integer, a missing operand, an empty line, a second #ip line)
\* at each position of a program that loads, and inputs without an #ip line.
InsertAt(text, k, line) ==
    SubSeq(text, 1, k) \o <<line>> \o SubSeq(text, k + 1, Len(text))

BaseInput ==
    << IpLine(Numeral(0)), CommandLine("seti", 5, 0, 1), CommandLine("seti", 6, 0, 2) >>

FaultLines ==
    { CommandLine("noop", 0, 0, 0),
      Line("seti", <<Numeral(5), NotNumeral, Numeral(1)>>),
      Line("seti", <<Numeral(5), Numeral(0)>>),
      Line("", <<>>),
      IpLine(NotNumeral),
      IpLine(Numeral(1)) }

FaultInputs ==
    { InsertAt(BaseInput, k, line) : k \in 0..Len(BaseInput), line \in FaultLines }
    \cup { <<>>, Tail(BaseInput) }

Inputs ==
    UnitInputs \cup SmallInputs \cup {ScenarioSeven, ScenarioThree} \cup LoaderInputs
      \cup FaultInputs

---------------------------------------------------------------------------
(* The program: main on one input file *)

\* Day 22 before anything of it has run.
NoCave ==
    /\ cs = [vec |-> <<>>, width |-> 0, height |-> 0, depth |-> 0, target |-> <<0, 0>>]
    /\ cave_x = 0
    /\ cave_y = 0
    /\ danger_index = 0

Init ==
    /\ NoCave
    /\ input \in Inputs
    /\ overflow_checks \in BOOLEAN
    /\ line_no = 0
    /\ ip_register = None
    /\ commands = <<>>
    /\ registers = Registers(0, 0, 0, 0, 0, 0)
    /\ pc = "load"
    /\ why = ""
    /\ executed = <<>>

Next ==
    \/ ReadLine
    \/ StartProgram
    \/ RunCommand
    \/ IncrementIp
    \/ CheckHalt

Spec == Init /\ [][Next]_vars

---------------------------------------------------------------------------
(* One opcode on a given register file: a line is parsed into a Command,  *)
(* and run_command dispatches it once.                                     *)

OpOperands == {-3, 0, 1, 3, 4, 5, 7}

OpBadDestinations == {-1, 6}

OpInputs ==
    { <<CommandLine(name, a, b, c)>> :
        name \in Mnemonics, a \in OpOperands, b \in OpOperands, c \in 0..5 }
    \cup
    { <<CommandLine(name, a, b, c)>> :
        name \in Mnemonics, a \in {0, 3, 7}, b \in {0, 3, 7}, c \in OpBadDestinations }

OpRegisterFiles ==
    { Registers(7, -3, 0, MaxI32, MinI32, 7),
      Registers(12, 10, -1, 65536, 46341, -46341),
      Registers(0, 0, 0, 0, 0, 0) }

InitOp ==
    /\ NoCave
    /\ input \in OpInputs
    /\ registers \in OpRegisterFiles
    /\ overflow_checks \in BOOLEAN
    /\ line_no = 0
    /\ ip_register = None
    /\ commands = <<>>
    /\ pc = "load"
    /\ why = ""
    /\ executed = <<>>

\* Processor::run_command on the parsed Command (lines 121-124).
CallCommand ==
    /\ pc = "load"
    /\ line_no = Len(input)
    /\ UNCHANGED <<input, line_no, ip_register, commands, executed, overflow_checks>>
    /\ UNCHANGED caveVars
    /\ registers' = run_command(registers, commands[1], overflow_checks).registers
    /\ why' = run_command(registers, commands[1], overflow_checks).why
    /\ pc' = IF run_command(registers, commands[1], overflow_checks).ok
             THEN "called" ELSE "panic"

NextOp ==
    \/ ReadLine
    \/ CallCommand

SpecOp == InitOp /\ [][NextOp]_vars

---------------------------------------------------------------------------
(* Day 22: CaveSystem::new(x_max + 1, y_max + 1, depth, target) and the    *)
(* danger index of main (src/22/src/main.rs)                               *)

\* The model's bound: the largest coordinate of the target.
MaxTarget == 3

\* Rust's % on i32 for a positive divisor: the remainder has the sign of
\* the dividend.
Rem(a, n) ==
    IF a >= 0 THEN a % n ELSE -((((-(a + 1)) % n) + 1) % n)

\* The outcome of building or updating a Region: the Region, or a panic.
RegionBuilt(region) == [ok |-> TRUE, region |-> region, why |-> ""]
RegionPanicked(region, msg) == [ok |-> FALSE, region |-> region, why |-> msg]

\* Region::set_geologic_index (lines 44-54)
set_geologic_index(region, gi, depth, checks) ==
    IF ~I32Add(gi, depth, checks).ok
    THEN RegionPanicked(region, "arithmetic overflow")
    ELSE LET el == Rem(I32Add(gi, depth, checks).val, 20183)
         IN  IF Rem(el, 3) \notin {0, 1, 2}
             THEN RegionPanicked(region, "unreachable: no such region type")
             ELSE RegionBuilt([t |-> CASE Rem(el, 3) = 0 -> "Rocky"
                                       [] Rem(el, 3) = 1 -> "Wet"
                                       [] Rem(el, 3) = 2 -> "Narrow",
                               geologic_index |-> Some(gi),
                               erosion_level |-> Some(el)])

\* region.set_geologic_index(v * factor, depth), the product on i32.
SetProduct(region, v, factor, depth, checks) ==
    IF ~I32Mul(v, factor, checks).ok
    THEN RegionPanicked(region, "arithmetic overflow")
    ELSE set_geologic_index(region, I32Mul(v, factor, checks).val, depth, checks)

\* Region::new (lines 22-42): the three ifs in their order, each of which
\* can overwrite what an earlier one set.
Region_new(x, y, depth, target, checks) ==
    LET unknown == [t |-> "Unknown", geologic_index |-> None, erosion_level |-> None]
        first == IF <<x, y>> = <<0, 0>> \/ <<x, y>> = target
                 THEN set_geologic_index(unknown, 0, depth, checks)
                 ELSE RegionBuilt(unknown)
        second == IF ~first.ok \/ y # 0 THEN first
                  ELSE SetProduct(first.region, x, 16807, depth, checks)
        third == IF ~second.ok \/ x # 0 THEN second
                 ELSE SetProduct(second.region, y, 48271, depth, checks)
    IN  third

\* The index of CaveSystem::get and get_mut_ref (lines 106-112), 1-based.
RegionIndex(x, y, width) == (x + (width * y)) + 1

\* One iteration of the loops of lines 71-75; after the last one the
\* CaveSystem is built (lines 77-87) and the loops of lines 88-100 start.
PushRegion ==
    /\ pc = "push"
    /\ UNCHANGED <<processorVars, overflow_checks, danger_index>>
    /\ LET result == Region_new(cave_x, cave_y, cs.depth, cs.target, overflow_checks)
       IN  IF ~result.ok
           THEN /\ pc' = "panic"
                /\ why' = result.why
                /\ UNCHANGED <<cs, cave_x, cave_y>>
           ELSE /\ cs' = [cs EXCEPT !.vec = Append(@, result.region)]
                /\ UNCHANGED why
                /\ IF cave_x + 1 < cs.width
                   THEN /\ cave_x' = cave_x + 1
                        /\ UNCHANGED <<cave_y, pc>>
                   ELSE IF cave_y + 1 < cs.height
                   THEN /\ cave_x' = 0
                        /\ cave_y' = cave_y + 1
                        /\ UNCHANGED pc
                   ELSE /\ cave_x' = 1
                        /\ cave_y' = 1
                        /\ pc' = IF 1 < cs.width /\ 1 < cs.height THEN "fill" ELSE "built"

\* One iteration of the loops of lines 88-100, x the outer and y the inner.
FillRegion ==
    /\ pc = "fill"
    /\ UNCHANGED <<processorVars, overflow_checks, danger_index>>
    /\ LET left == cs.vec[RegionIndex(cave_x - 1, cave_y, cs.width)].erosion_level
           up == cs.vec[RegionIndex(cave_x, cave_y - 1, cs.width)].erosion_level
           current == RegionIndex(cave_x, cave_y, cs.width)
           result == SetProduct(cs.vec[current], left.val, up.val, cs.depth,
                                overflow_checks)
           skipped == <<cave_x, cave_y>> = <<cs.width - 1, cs.height - 1>>
       IN  IF ~skipped /\ (~left.some \/ ~up.some)
           THEN /\ pc' = "panic"
                /\ why' = "Unexpectedly unknown erosion level!"
                /\ UNCHANGED <<cs, cave_x, cave_y>>
           ELSE IF ~skipped /\ ~result.ok
           THEN /\ pc' = "panic"
                /\ why' = result.why
                /\ UNCHANGED <<cs, cave_x, cave_y>>
           ELSE /\ cs' = IF skipped THEN cs
                         ELSE [cs EXCEPT !.vec[current] = result.region]
                /\ UNCHANGED why
                /\ IF cave_y + 1 < cs.height
                   THEN /\ cave_y' = cave_y + 1
                        /\ UNCHANGED <<cave_x, pc>>
                   ELSE IF cave_x + 1 < cs.width
                   THEN /\ cave_x' = cave_x + 1
                        /\ cave_y' = 1
                        /\ UNCHANGED pc
                   ELSE /\ pc' = "built"
                        /\ UNCHANGED <<cave_x, cave_y>>

\* The arms of the match in main's danger index (lines 164-169).
Danger(t) ==
    CASE t = "Rocky" -> 0
      [] t = "Wet" -> 1
      [] t = "Narrow" -> 2

RECURSIVE SumDanger(_, _)
SumDanger(regions, n) ==
    IF n = 0 THEN 0 ELSE SumDanger(regions, n - 1) + Danger(regions[n].t)

\* Lines 164-170: the sum over cs.vec, which panics on an Unknown region.
DangerIndex ==
    /\ pc = "built"
    /\ UNCHANGED <<processorVars, overflow_checks, cs, cave_x, cave_y>>
    /\ IF \E k \in 1..Len(cs.vec) : cs.vec[k].t = "Unknown"
       THEN /\ pc' = "panic"
            /\ why' = "unreachable: Unknown region"
            /\ UNCHANGED danger_index
       ELSE /\ pc' = "summed"
            /\ danger_index' = SumDanger(cs.vec, Len(cs.vec))
            /\ UNCHANGED why

\* The depths of the inputs: none, the puzzle's example, the modulus, and
\* the largest i32.
Depths == {0, 510, 20183, MaxI32}

InitCave ==
    /\ \E tx \in 0..MaxTarget, ty \in 0..MaxTarget, d \in Depths :
          cs = [vec |-> <<>>, width |-> tx + 1, height |-> ty + 1,
                depth |-> d, target |-> <<tx, ty>>]
    /\ cave_x = 0
    /\ cave_y = 0
    /\ danger_index = 0
    /\ overflow_checks \in BOOLEAN
    /\ pc = "push"
    /\ why = ""
    /\ input = <<>>
    /\ line_no = 0
    /\ ip_register = None
    /\ commands = <<>>
    /\ registers = Registers(0, 0, 0, 0, 0, 0)
    /\ executed = <<>>

NextCave ==
    \/ PushRegion
    \/ FillRegion
    \/ DangerIndex

SpecCave == InitCave /\ [][NextCave]_vars

---------------------------------------------------------------------------
(* What the claims speak of *)

\* The opcode table of the specification (section 4.1): which operands are
\* literals, and the value an instruction assigns to its destination, with
\* sums and products reduced into the i32 range.
LeftIsLiteral(name) == name \in {"seti", "gtir", "eqir"}
RightIsRegister(name) ==
    name \in {"addr", "mulr", "banr", "borr", "gtir", "gtrr", "eqir", "eqrr"}

LeftOperand(name, regs, a) == IF LeftIsLiteral(name) THEN a ELSE regs[a + 1]
RightOperand(name, regs, b) == IF RightIsRegister(name) THEN regs[b + 1] ELSE b

TableValue(name, regs, a, b) ==
    CASE name \in {"addr", "addi"} ->
            WrapAdd(LeftOperand(name, regs, a), RightOperand(name, regs, b))
      [] name \in {"mulr", "muli"} ->
            WrapMul(LeftOperand(name, regs, a), RightOperand(name, regs, b))
      [] name \in {"banr", "bani"} ->
            BitAnd(LeftOperand(name, regs, a), RightOperand(name, regs, b))
      [] name \in {"borr", "bori"} ->
            BitOr(LeftOperand(name, regs, a), RightOperand(name, regs, b))
      [] name \in {"setr", "seti"} -> LeftOperand(name, regs, a)
      [] name \in {"gtir", "gtri", "gtrr"} ->
            IF LeftOperand(name, regs, a) > RightOperand(name, regs, b) THEN 1 ELSE 0
      [] name \in {"eqir", "eqri", "eqrr"} ->
            IF LeftOperand(name, regs, a) = RightOperand(name, regs, b) THEN 1 ELSE 0

\* Every operand the opcode uses as a register index, and the destination,
\* is one of the six registers.
ValidOperands(name, a, b, c) ==
    /\ ValidRegister(c)
    /\ LeftIsLiteral(name) \/ ValidRegister(a)
    /\ RightIsRegister(name) => ValidRegister(b)

MnemonicOf(opcode) == CHOOSE name \in Mnemonics : OpcodeOf(name).val = opcode

ValidProgram(program) ==
    \A k \in 1..Len(program) :
        /\ program[k].opcode \in 0..15
        /\ ValidOperands(MnemonicOf(program[k].opcode),
                         program[k].a, program[k].b, program[k].c)

\* The panics of run_program, and the states in which it has been entered.
RunPanics ==
    {"unreachable: no such register", "index out of bounds: commands",
     "arithmetic overflow", "Unknown opcode"}
Running ==
    \/ pc \in {"fetch", "increment", "check", "done"}
    \/ pc = "panic" /\ why \in RunPanics

IpValue == registers[ip_register.val + 1]
Zeros == Registers(0, 0, 0, 0, 0, 0)

---------------------------------------------------------------------------
(* C1 *)

\* C1, as claimed: every increment step of run_program completes and leaves
\* the instruction-pointer register exactly 1 above the value it held right
\* after the opcode ran, whatever the opcode's destination was.
C1_IncrementByExactlyOne ==
    [][pc = "increment" =>
          /\ pc' = "check"
          /\ registers'[ip_register.val + 1] > IpValue
          /\ registers'[ip_register.val + 1] - IpValue = 1]_vars

---------------------------------------------------------------------------
(* C2 *)

---------------------------------------------------------------------------
(* C3 *)

\* C3, as claimed: for a non-empty program with valid register indices and
\* a valid instruction-pointer register, run from all-zero registers, every
\* fetch finds the pointer inside [0, N).
C3_FetchAlwaysInBounds ==
    (/\ pc = "fetch"
     /\ Len(commands) >= 1
     /\ ValidRegister(ip_register.val)
     /\ ValidProgram(commands))
    => (0 <= IpValue /\ IpValue < Len(commands))

---------------------------------------------------------------------------
(* C4, C5, C6: one dispatch, under SpecOp *)

\* run_command is about to dispatch the parsed Command.
Calling == pc = "load" /\ line_no = Len(input) /\ Len(commands) = 1

CallName == input[1].head
CallValid ==
    ValidOperands(CallName, commands[1].a, commands[1].b, commands[1].c)

\* C4: a dispatch with valid register indices that returns has written the
\* destination C and nothing else, and the value written is the opcode's
\* function of the register file as it was before the write, also when C is
\* A or B; a dispatch that does not return (an i32 overflow under overflow
\* checks) has written nothing.
C4_WritesOnlyDestination ==
    [][(Calling /\ CallValid) =>
          IF pc' = "called"
          THEN registers' =
                 [registers EXCEPT ![commands[1].c + 1] =
                     TableValue(CallName, registers, commands[1].a, commands[1].b)]
          ELSE registers' = registers]_vars

\* addr 0 1 1 on (12, 10, -1, ..): the destination is operand B, and holds
\* 12 + 10.
C4_Witness ==
    /\ pc = "called"
    /\ CallName = "addr"
    /\ commands[1].a = 0 /\ commands[1].b = 1 /\ commands[1].c = 1
    /\ registers = Registers(12, 22, -1, 65536, 46341, -46341)

\* C5: the identifier Command::new gives a mnemonic is in 0..15 and
\* get_instructions maps it to the method of that name, the table has an
\* entry for each of 0..15, and so dispatching the parsed instruction runs
\* the method its mnemonic names and, with valid register indices, writes
\* what the opcode table gives for that mnemonic.
C5_TableMatchesMnemonics ==
    [][Calling =>
          /\ DOMAIN get_instructions = 0..15
          /\ \A name \in Mnemonics :
                /\ OpcodeOf(name).ok
                /\ OpcodeOf(name).val \in 0..15
                /\ get_instructions[OpcodeOf(name).val] = name
          /\ commands[1].opcode = OpcodeOf(CallName).val
          /\ registers' = Invoke(CallName, registers, commands[1].a, commands[1].b,
                                 commands[1].c, overflow_checks).registers
          /\ (pc' = "called" /\ CallValid) =>
                registers'[commands[1].c + 1] =
                    TableValue(CallName, registers, commands[1].a, commands[1].b)]_vars

\* borr (identifier 6) on (12, 10, -1, ..): register 3 holds 12 | 10 = 14.
C5_Witness ==
    /\ pc = "called"
    /\ CallName = "borr"
    /\ commands[1] = Command(6, 0, 1, 3)
    /\ registers = Registers(12, 10, -1, 14, 46341, -46341)

\* C6: each of the six comparison opcodes, with valid register indices,
\* returns and writes exactly 1 to the destination when its condition holds
\* of the signed operands and exactly 0 otherwise: the left operand is the
\* literal A for ir and reg[A] for ri and rr, the right operand reg[B] for
\* ir and rr and the literal B for ri.
C6_ComparisonsWriteOneOrZero ==
    [][(/\ Calling
        /\ CallName \in {"gtir", "gtri", "gtrr", "eqir", "eqri", "eqrr"}
        /\ CallValid) =>
          LET left == IF CallName \in {"gtir", "eqir"}
                      THEN commands[1].a ELSE registers[commands[1].a + 1]
              right == IF CallName \in {"gtri", "eqri"}
                       THEN commands[1].b ELSE registers[commands[1].b + 1]
              holds == IF CallName \in {"gtir", "gtri", "gtrr"}
                       THEN left > right ELSE left = right
          IN  /\ pc' = "called"
              /\ holds => registers'[commands[1].c + 1] = 1
              /\ ~holds => registers'[commands[1].c + 1] = 0]_vars

\* gtrr 0 5 2 on (7, -3, 0, .., 7): equal operands, so register 2 holds 0.
C6_Witness ==
    /\ pc = "called"
    /\ CallName = "gtrr"
    /\ commands[1].a = 0 /\ commands[1].b = 5 /\ commands[1].c = 2
    /\ registers = Registers(7, -3, 0, MaxI32, MinI32, 7)

---------------------------------------------------------------------------
(* C7 *)

Arithmetic == {"addr", "addi", "mulr", "muli", "banr", "bani", "borr", "bori"}

\* run_program is running a program of one arithmetic instruction with
\* valid register indices.
C7_Case ==
    /\ Running
    /\ Len(commands) = 1
    /\ ValidRegister(ip_register.val)
    /\ commands[1].opcode \in 0..7
    /\ ValidProgram(commands)

C7_Name == MnemonicOf(commands[1].opcode)
C7_Documented == TableValue(C7_Name, Zeros, commands[1].a, commands[1].b)

---------------------------------------------------------------------------
(* C8 *)

\* C8, as claimed: while no executed instruction of a valid program had the
\* instruction-pointer register R as its destination, the run executes the
\* addresses 0, 1, .. in order, does not fail, and stops exactly after N
\* executions with R holding N.
C8_AsClaimed ==
    (/\ Running
     /\ Len(commands) >= 1
     /\ ValidRegister(ip_register.val)
     /\ ValidProgram(commands)
     /\ \A k \in 1..Len(executed) : commands[executed[k] + 1].c # ip_register.val)
    => /\ pc # "panic"
       /\ \A k \in 1..Len(executed) : executed[k] = k - 1
       /\ pc = "fetch" => (Len(executed) < Len(commands) /\ IpValue = Len(executed))
       /\ pc = "done" => (Len(executed) = Len(commands) /\ IpValue = Len(commands))

---------------------------------------------------------------------------
(* C9 *)

\* C9, as claimed: the program is the one instruction seti <target> 0 <R>
\* with R the instruction-pointer register (N = 1).  If target + 1 >= 1 the
\* run halts right after that instruction; otherwise it does not halt and
\* the next fetch is at address target + 1.
C9_AsClaimed ==
    (/\ Running
     /\ Len(commands) = 1
     /\ ValidRegister(ip_register.val)
     /\ commands[1] = Command(9, commands[1].a, 0, ip_register.val))
    => /\ commands[1].a >= 0 =>
             /\ pc # "panic"
             /\ Len(executed) = 1 => pc \in {"increment", "check", "done"}
       /\ commands[1].a < 0 =>
             /\ pc # "done"
             /\ (pc = "fetch" /\ Len(executed) >= 1) => IpValue = commands[1].a + 1

---------------------------------------------------------------------------
(* C10 *)

IsPrefix(s, t) == Len(s) <= Len(t) /\ \A k \in 1..Len(s) : s[k] = t[k]

\* C10: the seven-instruction program with the instruction pointer in
\* register 0 loads, never fails, executes the addresses 0, 1, 2, 4, 6 in
\* that order and no sixth instruction, and returns with the registers
\* [7, 5, 6, 0, 0, 9].
C10_ScenarioSeven ==
    input = ScenarioSeven =>
        /\ pc \notin {"panic", "exit"}
        /\ IsPrefix(executed, <<0, 1, 2, 4, 6>>)
        /\ Len(executed) = 5 => pc \in {"increment", "check", "done"}
        /\ pc = "done" =>
              /\ executed = <<0, 1, 2, 4, 6>>
              /\ registers = Registers(7, 5, 6, 0, 0, 9)

\* The seven-instruction program has returned.
C10_Witness ==
    /\ input = ScenarioSeven
    /\ pc = "done"
    /\ Len(executed) = 5

---------------------------------------------------------------------------
(* C11 *)

\* The register file the three-instruction program leaves after each of its
\* cycles.
C11_Snapshots ==
    << Registers(1, 5, 0, 0, 0, 0), Registers(2, 5, 6, 0, 0, 0),
       Registers(3, 5, 6, 11, 0, 0) >>

\* C11: the program seti 5 0 1; seti 6 0 2; addr 1 2 3 with the instruction
\* pointer in register 0 loads and never fails, executes the addresses 0, 1,
\* 2 in that order, leaves the register file [1,5,0,0,0,0], [2,5,6,0,0,0],
\* [3,5,6,11,0,0] at the end of its first, second and third cycle, goes
\* round the loop after the first two and returns after the third.
C11_ScenarioThree ==
    input = ScenarioThree =>
        /\ pc \notin {"panic", "exit"}
        /\ IsPrefix(executed, <<0, 1, 2>>)
        /\ pc = "check" => registers = C11_Snapshots[Len(executed)]
        /\ (pc = "fetch" /\ Len(executed) >= 1) =>
              registers = C11_Snapshots[Len(executed)]
        /\ pc = "fetch" => Len(executed) < 3
        /\ pc = "done" =>
              /\ executed = <<0, 1, 2>>
              /\ registers = C11_Snapshots[3]

\* The three-instruction program has returned after its third cycle.
C11_Witness ==
    /\ input = ScenarioThree
    /\ pc = "done"
    /\ Len(executed) = 3
    /\ registers = Registers(3, 5, 6, 11, 0, 0)

---------------------------------------------------------------------------
(* C12 *)

\* C12, as claimed: run_program is entered only with an instruction-pointer
\* register in [0,5] and a program whose destinations and register operands
\* are all in [0,5]; any other input has been rejected by the loader, so no
\* instruction of it is ever dispatched.
C12_AsClaimed ==
    /\ Running => (ValidRegister(ip_register.val) /\ ValidProgram(commands))
    /\ executed # <<>> => (ValidRegister(ip_register.val) /\ ValidProgram(commands))

---------------------------------------------------------------------------
(* C13 *)

\* The faults of an input text the claim names.
IpLineNumbers(text) == { k \in 1..Len(text) : text[k].head = "#ip" }
MissingIp(text) == IpLineNumbers(text) = {}
SecondIp(text) == Cardinality(IpLineNumbers(text)) >= 2
UnrecognizedMnemonic(text) ==
    \E k \in 1..Len(text) : text[k].head \notin Mnemonics \cup {"#ip"}
MalformedOperand(text) ==
    \E k \in 1..Len(text) :
        \/ \E j \in 1..Len(text[k].words) : ~text[k].words[j].numeral
        \/ text[k].head # "#ip" /\ Len(text[k].words) < 3
Faulty(text) ==
    \/ MissingIp(text)
    \/ SecondIp(text)
    \/ UnrecognizedMnemonic(text)
    \/ MalformedOperand(text)

\* C13: on an input without an #ip line, with a second #ip line, with an
\* unrecognized mnemonic or with a non-integer or missing operand, the
\* process is loading or has ended with a failure in the loader;
\* run_program is never entered, no instruction is dispatched and the
\* registers are never changed; and when every line has been read without
\* a panic, the #ip line is the missing one and the process exits with 1.
C13_LoaderFailsLoudly ==
    Faulty(input) =>
        /\ pc \in {"load", "panic", "exit"}
        /\ ~Running
        /\ executed = <<>>
        /\ registers = Zeros
        /\ pc \in {"panic", "exit"} => why # ""
        /\ (pc = "load" /\ line_no = Len(input)) => ip_register = None

\* The loader has panicked on a word that is no integer, in the third line
\* of the input or later, after lines it accepted.
C13_Witness ==
    /\ Faulty(input)
    /\ pc = "panic"
    /\ why = "Failed to parse str as i32"
    /\ line_no >= 3
    /\ ip_register # None
    /\ commands # <<>>

---------------------------------------------------------------------------
(* C14 *)

\* C14, as claimed: a dispatch of addr, addi, mulr or muli with valid
\* register indices always returns, also when the sum or product of its
\* operands lies outside the i32 range, and leaves a value in the
\* destination register.
C14_AsClaimed ==
    [][(/\ Calling
        /\ CallName \in {"addr", "addi", "mulr", "muli"}
        /\ CallValid) =>
          /\ pc' = "called"
          /\ registers'[commands[1].c + 1] \in MinI32..MaxI32]_vars

---------------------------------------------------------------------------
(* C15 *)

\* The address of the instruction dispatched last.
LastExecuted == executed[Len(executed)]

\* C15: the instruction a cycle dispatches is the one at the address the
\* instruction-pointer register R holds at the start of the cycle, so an
\* operand that names R reads that address (the destination receives the
\* opcode's function of a register file whose register R is the
\* instruction's own address); and the increment that ends the cycle
\* leaves R at that address + 1 unless the instruction's destination was R.
C15_IpIsAddress ==
    [][/\ (pc = "fetch" /\ pc' = "increment") =>
             /\ executed' = Append(executed, IpValue)
             /\ registers' = run_command(registers, commands[IpValue + 1],
                                         overflow_checks).registers
             /\ LET command == commands[executed'[Len(executed')] + 1]
                    name == MnemonicOf(command.opcode)
                IN  ValidOperands(name, command.a, command.b, command.c) =>
                       registers'[command.c + 1] =
                          TableValue(name,
                                     [registers EXCEPT ![ip_register.val + 1] =
                                          executed'[Len(executed')]],
                                     command.a, command.b)
       /\ (/\ pc = "increment" /\ pc' = "check"
           /\ commands[LastExecuted + 1].c # ip_register.val) =>
             registers'[ip_register.val + 1] = LastExecuted + 1]_vars

\* gtrr 0 1 3; setr 1 0 0 with the instruction pointer in register 1: the
\* setr at address 1 has copied its own address into register 0, and the
\* cycle has ended with the pointer at 2.
C15_Witness ==
    /\ pc = "check"
    /\ ip_register = Some(1)
    /\ executed = <<0, 1>>
    /\ commands[2] = Command(8, 1, 0, 0)
    /\ registers = Registers(1, 2, 0, 0, 0, 0)

---------------------------------------------------------------------------
(* C16 *)

\* The opcode reads a register that does not exist.
SourceOutOfRange(name, a, b) ==
    \/ ~LeftIsLiteral(name) /\ ~ValidRegister(a)
    \/ RightIsRegister(name) /\ ~ValidRegister(b)

\* C16: read and write succeed on exactly the indices 0..5, and a write
\* that fails leaves the register file as it was; a dispatch that reads or
\* writes a register outside 0..5 fails and changes no register, and when
\* it is a source register that is out of range the failure is the read's,
\* before the destination is written.
C16_BoundsChecked ==
    [][Calling =>
          /\ \A r \in -3..8 :
                /\ read(registers, r).ok <=> r \in 0..5
                /\ write(registers, r, 1).ok <=> r \in 0..5
                /\ r \notin 0..5 => write(registers, r, 1).registers = registers
          /\ ~CallValid => (pc' = "panic" /\ registers' = registers)
          /\ SourceOutOfRange(CallName, commands[1].a, commands[1].b) =>
                /\ pc' = "panic"
                /\ why' = "unreachable: no such register"
                /\ registers' = registers]_vars

\* addr 7 0 3 on (12, 10, -1, ..): the read of register 7 has failed and
\* register 3 is as it was.
C16_Witness ==
    /\ pc = "panic"
    /\ why = "unreachable: no such register"
    /\ CallName = "addr"
    /\ commands[1] = Command(0, 7, 0, 3)
    /\ registers = Registers(12, 10, -1, 65536, 46341, -46341)

---------------------------------------------------------------------------
(* C17 *)

\* Operand values to put in place of B.
C17_OtherB == OpOperands \cup {MinI32, MaxI32}

\* C17: with the register operands and the destination in 0..5, the
\* literal operand may be any integer.  seti, gtir and eqir (literal A)
\* always return and write the value computed from A itself; addi, muli,
\* bani, bori, gtri and eqri (literal B) never fail on a register that does
\* not exist, and when they return they have written the value computed
\* from reg[A] and B itself; and what setr and seti do is the same for
\* every B.
C17_LiteralsByOpcode ==
    [][Calling =>
          LET name == CallName
              a == commands[1].a
              b == commands[1].b
              c == commands[1].c
          IN  /\ (name = "seti" /\ ValidRegister(c)) =>
                    (pc' = "called" /\ registers'[c + 1] = a)
              /\ (name \in {"gtir", "eqir"} /\ ValidRegister(b) /\ ValidRegister(c)) =>
                    /\ pc' = "called"
                    /\ registers'[c + 1] =
                          IF name = "gtir"
                          THEN (IF a > registers[b + 1] THEN 1 ELSE 0)
                          ELSE (IF a = registers[b + 1] THEN 1 ELSE 0)
              /\ (/\ name \in {"addi", "muli", "bani", "bori", "gtri", "eqri"}
                  /\ ValidRegister(a) /\ ValidRegister(c)) =>
                    /\ why' # "unreachable: no such register"
                    /\ pc' = "called" =>
                          registers'[c + 1] =
                             CASE name = "addi" -> WrapAdd(registers[a + 1], b)
                               [] name = "muli" -> WrapMul(registers[a + 1], b)
                               [] name = "bani" -> BitAnd(registers[a + 1], b)
                               [] name = "bori" -> BitOr(registers[a + 1], b)
                               [] name = "gtri" -> IF registers[a + 1] > b THEN 1 ELSE 0
                               [] name = "eqri" -> IF registers[a + 1] = b THEN 1 ELSE 0
              /\ name \in {"setr", "seti"} =>
                    \A other \in C17_OtherB :
                        run_command(registers, [commands[1] EXCEPT !.b = other],
                                    overflow_checks)
                          = run_command(registers, commands[1], overflow_checks)]_vars

\* gtir 7 1 0 on (12, 10, -1, ..): the literal 7 names no register, and
\* register 0 holds 0 because 7 > 10 is false.
C17_Witness ==
    /\ pc = "called"
    /\ CallName = "gtir"
    /\ commands[1] = Command(10, 7, 1, 0)
    /\ registers = Registers(0, 10, -1, 65536, 46341, -46341)

---------------------------------------------------------------------------
(* C18 *)

\* C18: while run_program runs, ip_register and the program never change;
\* the dispatch of a cycle changes no register other than the destination
\* of the instruction it fetched (none when the fetch fails), the increment
\* changes no register other than the instruction-pointer register, and
\* the halting check changes none: a cycle changes at most those two.
C18_CycleFrame ==
    [][(pc \in {"fetch", "increment", "check"}) =>
          /\ ip_register' = ip_register
          /\ commands' = commands
          /\ pc = "fetch" =>
                IF FetchAddress(registers, ip_register.val, commands).ok
                THEN \A r \in 0..5 :
                        (r # commands[IpValue + 1].c) =>
                            (registers'[r + 1] = registers[r + 1])
                ELSE UNCHANGED registers
          /\ pc = "increment" =>
                \A r \in 0..5 :
                    (r # ip_register.val) => (registers'[r + 1] = registers[r + 1])
          /\ pc = "check" => UNCHANGED registers]_vars

\* The seven-instruction program after its third cycle, addi 0 1 0 with
\* the instruction pointer in register 0: registers 1 and 2 keep what the
\* first two cycles wrote, and the pointer is 4.
C18_Witness ==
    /\ input = ScenarioSeven
    /\ pc = "check"
    /\ executed = <<0, 1, 2>>
    /\ registers = Registers(4, 5, 6, 0, 0, 0)
    /\ ip_register = Some(0)
    /\ Len(commands) = 7

---------------------------------------------------------------------------
(* C19 *)

\* C19, as claimed: once CaveSystem::new has returned the grid has
\* width * height regions, each with a known erosion level in [0, 20182]
\* and a type other than Unknown; no region is computed before its left
\* and upper neighbour have their erosion level; and the danger-index sum
\* never reaches its Unknown arm.
C19_AsClaimed ==
    /\ pc \in {"built", "summed"} =>
          /\ Len(cs.vec) = cs.width * cs.height
          /\ \A k \in 1..Len(cs.vec) :
                /\ cs.vec[k].erosion_level.some
                /\ cs.vec[k].erosion_level.val \in 0..20182
                /\ cs.vec[k].t # "Unknown"
    /\ why # "Unexpectedly unknown erosion level!"
    /\ why # "unreachable: Unknown region"

=============================================================================
